---- MODULE Spec2Model ----
(***************************************************************************)
(* State-machine model of the XPT2046 touch controller driver              *)
(* (src/xpt2046.py): construction, the command transaction on the serial   *)
(* bus, presence detection, raw acquisition with the median/mean filter,   *)
(* and the calibrated, rotated mapping.  The serial bus, the chip-select   *)
(* line, the interrupt line and the delay primitive are the environment;   *)
(* every call the driver makes on them is recorded, in order, in `log`.    *)
(***************************************************************************)
EXTENDS Integers, Sequences, FiniteSets

(***************************************************************************)
(* Command bytes, src/xpt2046.py lines 10-13.                              *)
(***************************************************************************)
_GET_X == 144
_GET_Y == 208
_GET_Z1 == 176
_GET_Z2 == 192

(***************************************************************************)
(* Bounds of the exploration.                                              *)
(***************************************************************************)
\* largest sample count the caller assigns to the `samples` attribute
MaxSamples == 4

(***************************************************************************)
(* Inputs.                                                                 *)
(***************************************************************************)
\* Response byte pairs <<data[0], data[1]>> the controller returns, per
\* channel.  After the shift they read 0, 1000, 1031, 1100 and 8191.
ResponseBytes(c) ==
    IF c = _GET_X THEN {<<0, 0>>, <<32, 56>>}
    ELSE IF c = _GET_Y THEN {<<31, 64>>, <<255, 255>>}
    ELSE IF c = _GET_Z1 THEN {<<32, 56>>, <<34, 96>>, <<255, 255>>}
    ELSE {<<0, 0>>, <<31, 64>>}

\* Rotation arguments passed to the constructor; 4 is outside 0..3.
Rotations == {0, 1, 2, 3, 4}

\* Levels the interrupt line can read.
Levels == {0, 1}

\* Display sizes and calibration bounds passed to the constructor:
\* the defaults of line 25, a calibration whose bounds are the extreme
\* readings, one whose X span is zero, and one whose X bounds are exchanged.
Calibrations ==
    { [width |-> 240, height |-> 320,
       x_min |-> 100, x_max |-> 1962, y_min |-> 100, y_max |-> 1900],
      [width |-> 240, height |-> 320,
       x_min |-> 0, x_max |-> 1031, y_min |-> 1000, y_max |-> 8191],
      [width |-> 240, height |-> 320,
       x_min |-> 100, x_max |-> 100, y_min |-> 100, y_max |-> 1900],
      [width |-> 240, height |-> 320,
       x_min |-> 1962, x_max |-> 100, y_min |-> 100, y_max |-> 1900] }

IntPins == {"None", "Pin"}

VARIABLES
    self,        \* the instance's attributes
    cs,          \* level of the chip-select line
    log,         \* calls made on cs, spi, int_pin and time, in order
    op,          \* the public method being (or last) executed
    pc,          \* position in the code
    cmd,         \* _command: argument
    data,        \* _command: bytes read
    value,       \* _command: value returned
    z1, z2,      \* is_touched: locals
    pressure,    \* is_touched: local, <<numerator, denominator>> of z1/z2 - 1
    touched,     \* is_touched: value returned
    x_samples, y_samples,  \* get_raw_touch: locals
    i,           \* get_raw_touch: iterations completed
    raw,         \* get_raw_touch: value returned (<<>> is None)
    xy,          \* get_touch: locals x, y after the mapping
    result       \* what the public method returned to its caller

vars == <<self, cs, log, op, pc, cmd, data, value, z1, z2, pressure, touched,
          x_samples, y_samples, i, raw, xy, result>>

\* a local not yet bound
Unset == 0 - 1

(***************************************************************************)
(* Values a public method hands to its caller.                             *)
(***************************************************************************)
Pending == [tag |-> "pending", x |-> 0, y |-> 0]
None == [tag |-> "None", x |-> 0, y |-> 0]
Bool(b) == [tag |-> IF b THEN "True" ELSE "False", x |-> 0, y |-> 0]
Tuple(a, b) == [tag |-> "tuple", x |-> a, y |-> b]
Raised(e) == [tag |-> e, x |-> 0, y |-> 0]

(***************************************************************************)
(* Pure helpers.                                                           *)
(***************************************************************************)
Abs(n) == IF n < 0 THEN -n ELSE n

\* int(a / b) for b # 0: true division, then truncation toward zero.
\* The quotient of the magnitudes met here (|a| < 2^24) is exact enough in
\* either float width for the truncation to equal the exact one.
TruncDiv(a, b) ==
    IF (a >= 0) = (b > 0) THEN Abs(a) \div Abs(b) ELSE -(Abs(a) \div Abs(b))

RECURSIVE Sum(_)
Sum(s) == IF s = <<>> THEN 0 ELSE Head(s) + Sum(Tail(s))

RECURSIVE Insert(_, _)
Insert(v, s) ==
    IF s = <<>> THEN <<v>>
    ELSE IF v <= Head(s) THEN <<v>> \o s
    ELSE <<Head(s)>> \o Insert(v, Tail(s))

\* list.sort(): ascending
RECURSIVE Sort(_)
Sort(s) == IF s = <<>> THEN <<>> ELSE Insert(Head(s), Sort(Tail(s)))

\* ((data[0] << 8) | data[1]) >> 3
Combine(d) == (d[1] * 256 + d[2]) \div 8

\* lines 136-143 as they would be with the lower-middle element chosen
FilterLowerMiddle(sorted, n) ==
    IF n >= 3 THEN sorted[((n - 1) \div 2) + 1]
    ELSE Sum(sorted) \div Len(sorted)

\* lines 136-143, on a sorted buffer
Filter(sorted, n) ==
    IF n >= 3 THEN sorted[(n \div 2) + 1]
    ELSE Sum(sorted) \div Len(sorted)

\* line 160 as it would be with floor division (//) for int(... / ...)
MapXFloor(s, x_raw) ==
    LET a == (x_raw - s.x_min) * s.width
        b == s.x_max - s.x_min
    IN  s.width - (IF b > 0 THEN a \div b ELSE (-a) \div (-b))

\* line 160
MapX(s, x_raw) ==
    s.width - TruncDiv((x_raw - s.x_min) * s.width, s.x_max - s.x_min)

\* line 161 as it would be with the offset y_min left out
MapYNoOffset(s, y_raw) ==
    TruncDiv(y_raw * s.height, s.y_max - s.y_min)

\* line 161
MapY(s, y_raw) ==
    TruncDiv((y_raw - s.y_min) * s.height, s.y_max - s.y_min)

\* lines 164-171 as they would be with width and height swapped for the
\* quarter turns
RotateSwapped(s, r, x, y) ==
    IF r = 0 THEN Tuple(x, y)
    ELSE IF r = 1 THEN Tuple(y, s.height - x)
    ELSE IF r = 2 THEN Tuple(s.width - x, s.height - y)
    ELSE IF r = 3 THEN Tuple(s.width - y, x)
    ELSE None

\* lines 164-171: the value returned for rotation r; no branch is taken,
\* and the method falls off its end, for any other r
Rotate(s, r, x, y) ==
    IF r = 0 THEN Tuple(x, y)
    ELSE IF r = 1 THEN Tuple(y, s.width - x)
    ELSE IF r = 2 THEN Tuple(s.width - x, s.height - y)
    ELSE IF r = 3 THEN Tuple(s.height - y, x)
    ELSE None

\* `pressure > 0.1` for pressure = z1/z2 - 1, z2 > 0: the outcomes a build
\* can produce.  Off the boundary the comparison is exact; at z1/z2 = 1.1
\* the rounding of 1.1 and of 0.1 in the build's float width decides.
PressureExceeds(p) ==
    IF 10 * p[1] > p[2] THEN {TRUE}
    ELSE IF 10 * p[1] = p[2] THEN {TRUE, FALSE}
    ELSE {FALSE}

\* __init__, lines 41-64
New(int_pin, c, rotation) ==
    [int_pin |-> int_pin, width |-> c.width, height |-> c.height,
     x_min |-> c.x_min, x_max |-> c.x_max,
     y_min |-> c.y_min, y_max |-> c.y_max,
     rotation |-> rotation, touch_delay |-> 10, samples |-> 3]

(***************************************************************************)
(* Construction.  The constructor stores cs without driving it, so the     *)
(* line keeps the level its creator left it at.                            *)
(***************************************************************************)
Init ==
    /\ \E p \in IntPins, c \in Calibrations, r \in Rotations :
           self = New(p, c, r)
    /\ cs \in Levels
    /\ log = <<>>
    /\ op = "none"
    /\ pc = "idle"
    /\ cmd = 0
    /\ data = <<>>
    /\ value = Unset
    /\ z1 = Unset
    /\ z2 = Unset
    /\ pressure = <<>>
    /\ touched = "unset"
    /\ x_samples = <<>>
    /\ y_samples = <<>>
    /\ i = 0
    /\ raw = <<>>
    /\ xy = <<>>
    /\ result = Pending

(***************************************************************************)
(* The caller.                                                             *)
(***************************************************************************)
\* what a call starts from: an empty log and unbound locals
Fresh ==
    /\ log' = <<>>
    /\ cmd' = 0
    /\ data' = <<>>
    /\ value' = Unset
    /\ z1' = Unset
    /\ z2' = Unset
    /\ pressure' = <<>>
    /\ touched' = "unset"
    /\ x_samples' = <<>>
    /\ y_samples' = <<>>
    /\ i' = 0
    /\ raw' = <<>>
    /\ xy' = <<>>
    /\ result' = Pending

\* the caller assigns the public attribute `samples` between calls; what
\* the previous call left behind is dropped
SetSamples(n) ==
    /\ pc = "idle"
    /\ self' = [self EXCEPT !.samples = n]
    /\ op' = "none"
    /\ Fresh
    /\ UNCHANGED <<cs, pc>>

\* the caller invokes a public method; each of the three starts, directly
\* or through the calls of lines 153 and 120, at the top of is_touched
Call(m) ==
    /\ pc = "idle"
    /\ op' = m
    /\ pc' = "it_95"
    /\ Fresh
    /\ UNCHANGED <<self, cs>>

\* an exception leaves every frame and reaches the caller
Raise(e) ==
    /\ pc' = "idle"
    /\ result' = Raised(e)

(***************************************************************************)
(* _command, lines 75-86.                                                  *)
(***************************************************************************)
\* line 75
CmdSelect ==
    /\ pc = "cmd_75"
    /\ cs' = 0
    /\ log' = Append(log, <<"cs.value", 0>>)
    /\ pc' = "cmd_78"
    /\ UNCHANGED <<self, op, cmd, data, value, z1, z2, pressure, touched,
                   x_samples, y_samples, i, raw, xy, result>>

\* line 78: one write of the one-byte string bytes([cmd])
CmdWrite ==
    /\ pc = "cmd_78"
    /\ log' = Append(log, <<"spi.write", cmd>>)
    /\ pc' = "cmd_81"
    /\ UNCHANGED <<self, cs, op, cmd, data, value, z1, z2, pressure, touched,
                   x_samples, y_samples, i, raw, xy, result>>

\* line 81
CmdRead ==
    /\ pc = "cmd_81"
    /\ \E d \in ResponseBytes(cmd) : data' = d
    /\ log' = Append(log, <<"spi.read", 2>>)
    /\ pc' = "cmd_83"
    /\ UNCHANGED <<self, cs, op, cmd, value, z1, z2, pressure, touched,
                   x_samples, y_samples, i, raw, xy, result>>

\* line 83 as it would be with the chip-select line left low
CmdDeselectForgotten ==
    /\ pc = "cmd_83"
    /\ pc' = "cmd_86"
    /\ UNCHANGED <<self, cs, log, op, cmd, data, value, z1, z2, pressure,
                   touched, x_samples, y_samples, i, raw, xy, result>>

\* line 83
CmdDeselect ==
    /\ pc = "cmd_83"
    /\ cs' = 1
    /\ log' = Append(log, <<"cs.value", 1>>)
    /\ pc' = "cmd_86"
    /\ UNCHANGED <<self, op, cmd, data, value, z1, z2, pressure, touched,
                   x_samples, y_samples, i, raw, xy, result>>

\* line 86, and the use of the returned value at the call site
\* (lines 101, 102, 128, 129)
CmdReturn ==
    /\ pc = "cmd_86"
    /\ value' = Combine(data)
    /\ IF cmd = _GET_Z1
         THEN /\ z1' = value'
              /\ cmd' = _GET_Z2
              /\ pc' = "cmd_75"
              /\ UNCHANGED <<z2, x_samples, y_samples>>
       ELSE IF cmd = _GET_Z2
         THEN /\ z2' = value'
              /\ pc' = "it_105"
              /\ UNCHANGED <<z1, cmd, x_samples, y_samples>>
       ELSE IF cmd = _GET_X
         THEN /\ x_samples' = Append(x_samples, value')
              /\ cmd' = _GET_Y
              /\ pc' = "cmd_75"
              /\ UNCHANGED <<z1, z2, y_samples>>
       ELSE /\ y_samples' = Append(y_samples, value')
            /\ pc' = "grt_130"
            /\ UNCHANGED <<z1, z2, cmd, x_samples>>
    /\ UNCHANGED <<self, cs, log, op, data, pressure, touched, i, raw, xy,
                   result>>

(***************************************************************************)
(* is_touched, lines 95-112.                                               *)
(***************************************************************************)
\* `return t`: to the caller, or to line 120 of get_raw_touch
IsTouchedReturn(t) ==
    /\ touched' = IF t THEN "True" ELSE "False"
    /\ IF op = "is_touched"
         THEN /\ pc' = "idle"
              /\ result' = Bool(t)
         ELSE /\ pc' = "grt_120"
              /\ UNCHANGED result

\* lines 95-97 as they would be with the line taken for active-high
IsTouchedIntActiveHigh ==
    /\ pc = "it_95"
    /\ self.int_pin # "None"
    /\ \E v \in Levels :
           /\ log' = Append(log, <<"int_pin.value", v>>)
           /\ IsTouchedReturn(v = 1)
    /\ UNCHANGED <<self, cs, op, cmd, data, value, z1, z2, pressure,
                   x_samples, y_samples, i, raw, xy>>

\* lines 95-97: an interrupt pin was given
IsTouchedInt ==
    /\ pc = "it_95"
    /\ self.int_pin # "None"
    /\ \E v \in Levels :
           /\ log' = Append(log, <<"int_pin.value", v>>)
           /\ IsTouchedReturn(v = 0)
    /\ UNCHANGED <<self, cs, op, cmd, data, value, z1, z2, pressure,
                   x_samples, y_samples, i, raw, xy>>

\* lines 95, 101: no interrupt pin, the Z1 command starts
IsTouchedMeasure ==
    /\ pc = "it_95"
    /\ self.int_pin = "None"
    /\ cmd' = _GET_Z1
    /\ pc' = "cmd_75"
    /\ UNCHANGED <<self, cs, log, op, data, value, z1, z2, pressure, touched,
                   x_samples, y_samples, i, raw, xy, result>>

\* lines 105-112 as they would be without the guard of lines 105-106
IsTouchedPressureUnguarded ==
    /\ pc = "it_105"
    /\ IF z2 = 0
         THEN /\ Raise("ZeroDivisionError")
              /\ UNCHANGED <<pressure, touched>>
         ELSE /\ pressure' = <<z1 - z2, z2>>
              /\ \E t \in PressureExceeds(pressure') : IsTouchedReturn(t)
    /\ UNCHANGED <<self, cs, log, op, cmd, data, value, z1, z2,
                   x_samples, y_samples, i, raw, xy>>

\* lines 105-112
IsTouchedPressure ==
    /\ pc = "it_105"
    /\ IF z2 = 0
         THEN /\ IsTouchedReturn(FALSE)
              /\ UNCHANGED pressure
         ELSE /\ pressure' = <<z1 - z2, z2>>
              /\ \E t \in PressureExceeds(pressure') : IsTouchedReturn(t)
    /\ UNCHANGED <<self, cs, log, op, cmd, data, value, z1, z2,
                   x_samples, y_samples, i, raw, xy>>

(***************************************************************************)
(* get_raw_touch, lines 120-145.                                           *)
(***************************************************************************)
\* `return r`: to the caller, or to line 153 of get_touch
GetRawReturn(r) ==
    /\ raw' = r
    /\ IF op = "get_raw_touch"
         THEN /\ pc' = "idle"
              /\ result' = IF r = <<>> THEN None ELSE Tuple(r[1], r[2])
         ELSE /\ pc' = "gt_154"
              /\ UNCHANGED result

\* lines 120-121
GetRawNotTouched ==
    /\ pc = "grt_120"
    /\ touched = "False"
    /\ GetRawReturn(<<>>)
    /\ UNCHANGED <<self, cs, log, op, cmd, data, value, z1, z2, pressure,
                   touched, x_samples, y_samples, i, xy>>

\* lines 120, 124-125
GetRawBegin ==
    /\ pc = "grt_120"
    /\ touched = "True"
    /\ x_samples' = <<>>
    /\ y_samples' = <<>>
    /\ i' = 0
    /\ pc' = "grt_127"
    /\ UNCHANGED <<self, cs, log, op, cmd, data, value, z1, z2, pressure,
                   touched, raw, xy, result>>

\* lines 127-128: another iteration, the X command starts
GetRawIterate ==
    /\ pc = "grt_127"
    /\ i < self.samples
    /\ cmd' = _GET_X
    /\ pc' = "cmd_75"
    /\ UNCHANGED <<self, cs, log, op, data, value, z1, z2, pressure, touched,
                   x_samples, y_samples, i, raw, xy, result>>

\* line 130 as it would be with the delay after the last sample dropped
GetRawSleepNotLast ==
    /\ pc = "grt_130"
    /\ log' = IF i + 1 < self.samples
                THEN Append(log, <<"time.sleep_ms", self.touch_delay>>)
                ELSE log
    /\ i' = i + 1
    /\ pc' = "grt_127"
    /\ UNCHANGED <<self, cs, op, cmd, data, value, z1, z2, pressure, touched,
                   x_samples, y_samples, raw, xy, result>>

\* line 130
GetRawSleep ==
    /\ pc = "grt_130"
    /\ log' = Append(log, <<"time.sleep_ms", self.touch_delay>>)
    /\ i' = i + 1
    /\ pc' = "grt_127"
    /\ UNCHANGED <<self, cs, op, cmd, data, value, z1, z2, pressure, touched,
                   x_samples, y_samples, raw, xy, result>>

\* lines 127, 133-145: the loop is over; sort in place, filter, return
GetRawFilter ==
    /\ pc = "grt_127"
    /\ i >= self.samples
    /\ x_samples' = Sort(x_samples)
    /\ y_samples' = Sort(y_samples)
    /\ GetRawReturn(<<Filter(x_samples', self.samples),
                      Filter(y_samples', self.samples)>>)
    /\ UNCHANGED <<self, cs, log, op, cmd, data, value, z1, z2, pressure,
                   touched, i, xy>>

(***************************************************************************)
(* get_touch, lines 153-171.                                               *)
(***************************************************************************)
\* lines 154-155
GetTouchNone ==
    /\ pc = "gt_154"
    /\ raw = <<>>
    /\ pc' = "idle"
    /\ result' = None
    /\ UNCHANGED <<self, cs, log, op, cmd, data, value, z1, z2, pressure,
                   touched, x_samples, y_samples, i, raw, xy>>

\* lines 157-171
GetTouchMap ==
    /\ pc = "gt_154"
    /\ raw # <<>>
    /\ IF self.x_max - self.x_min = 0 \/ self.y_max - self.y_min = 0
         THEN /\ Raise("ZeroDivisionError")
              /\ UNCHANGED xy
         ELSE /\ xy' = <<MapX(self, raw[1]), MapY(self, raw[2])>>
              /\ pc' = "idle"
              /\ result' = Rotate(self, self.rotation, xy'[1], xy'[2])
    /\ UNCHANGED <<self, cs, log, op, cmd, data, value, z1, z2, pressure,
                   touched, x_samples, y_samples, i, raw>>

Next ==
    \/ \E n \in 1..MaxSamples : SetSamples(n)
    \/ \E m \in {"is_touched", "get_raw_touch", "get_touch"} : Call(m)
    \/ CmdSelect
    \/ CmdWrite
    \/ CmdRead
    \/ CmdDeselect
    \/ CmdReturn
    \/ IsTouchedInt
    \/ IsTouchedMeasure
    \/ IsTouchedPressure
    \/ GetRawNotTouched
    \/ GetRawBegin
    \/ GetRawIterate
    \/ GetRawSleep
    \/ GetRawFilter
    \/ GetTouchNone
    \/ GetTouchMap

Spec == Init /\ [][Next]_vars

(***************************************************************************)
(* What the properties below read off a state.                             *)
(***************************************************************************)
\* a public method m has returned (or raised) and nothing was called since
Returned(m) == pc = "idle" /\ op = m

\* is_touched has just returned, to the caller or to get_raw_touch
PresenceDecided == Returned("is_touched") \/ pc = "grt_120"

\* get_raw_touch has returned, to the caller or to get_touch
GetRawDone ==
    Returned("get_raw_touch") \/ Returned("get_touch") \/ pc = "gt_154"

\* the four calls of one command transaction
Txn(c) ==
    << <<"cs.value", 0>>, <<"spi.write", c>>, <<"spi.read", 2>>,
       <<"cs.value", 1>> >>

IsBusCall(e) == e[1] \in {"cs.value", "spi.write", "spi.read"}

\* the calls of the log made on the chip-select line and the serial bus
Bus(l) == SelectSeq(l, IsBusCall)

IsAcquisitionCall(e) ==
    e \in {<<"spi.write", _GET_X>>, <<"spi.write", _GET_Y>>}
        \/ e[1] = "time.sleep_ms"

\* the X and Y command writes and the settle delays of the log
Acquisition(l) == SelectSeq(l, IsAcquisitionCall)

\* n iterations of: X command, Y command, settle delay
RECURSIVE Rounds(_, _)
Rounds(n, delay) ==
    IF n = 0 THEN <<>>
    ELSE << <<"spi.write", _GET_X>>, <<"spi.write", _GET_Y>>,
            <<"time.sleep_ms", delay>> >> \o Rounds(n - 1, delay)

\* the reads of the log that answer an X or a Y command
SampleReads(l) ==
    {k \in 2..Len(l) :
        /\ l[k] = <<"spi.read", 2>>
        /\ l[k - 1] \in {<<"spi.write", _GET_X>>, <<"spi.write", _GET_Y>>}}

(***************************************************************************)
(* C1: get_raw_touch returns nothing when is_touched is false, having      *)
(* sent no X or Y command and slept not at all; when is_touched is true it *)
(* reads exactly 2N samples, X then Y in each of its N iterations, and     *)
(* sleeps exactly N times, once after every iteration, the last included.  *)
(***************************************************************************)
C1_AcquisitionShape ==
    GetRawDone =>
        /\ touched = "False" =>
            /\ raw = <<>>
            /\ Returned("get_raw_touch") => result = None
            /\ Acquisition(log) = <<>>
            /\ SampleReads(log) = {}
        /\ touched = "True" =>
            /\ raw # <<>>
            /\ Returned("get_raw_touch") => result = Tuple(raw[1], raw[2])
            /\ Acquisition(log) = Rounds(self.samples, self.touch_delay)
            /\ Cardinality(SampleReads(log)) = 2 * self.samples
            /\ log[Len(log)][1] = "time.sleep_ms"

C1_Witness ==
    /\ Returned("get_raw_touch")
    /\ touched = "True"
    /\ self.samples = 4
    /\ Cardinality(SampleReads(log)) = 8

(***************************************************************************)
(* C2: with an interrupt line, is_touched makes no call on the chip-select *)
(* line or the serial bus, and returns true iff the line reads low.        *)
(***************************************************************************)
C2_InterruptPathNoBus ==
    (PresenceDecided /\ self.int_pin # "None") =>
        /\ Bus(log) = <<>>
        /\ \E v \in Levels :
               /\ log = << <<"int_pin.value", v>> >>
               /\ touched = IF v = 0 THEN "True" ELSE "False"
        /\ Returned("is_touched") => result = Bool(touched = "True")

C2_Witness ==
    /\ Returned("is_touched")
    /\ self.int_pin # "None"
    /\ log = << <<"int_pin.value", 0>> >>
    /\ result = Bool(TRUE)
    /\ cs = 0

(***************************************************************************)
(* C3: without an interrupt line, a Z2 reading of 0 makes is_touched       *)
(* return false whatever Z1 read, and the quotient z1/z2 is never formed.  *)
(***************************************************************************)
C3_ZeroZ2NotTouched ==
    (z2 = 0 /\ pc # "it_105") =>
        /\ touched = "False"
        /\ pressure = <<>>
        /\ result.tag # "ZeroDivisionError"
        /\ Returned("is_touched") => result = Bool(FALSE)

C3_Witness ==
    /\ Returned("is_touched")
    /\ z2 = 0
    /\ z1 = 8191
    /\ result = Bool(FALSE)

\* how many elements of s satisfy v < bound, resp. v <= bound
Below(s, bound) == Cardinality({k \in 1..Len(s) : s[k] < bound})
AtMost(s, bound) == Cardinality({k \in 1..Len(s) : s[k] <= bound})

\* v is the element at index k (from 0) of s sorted ascending
IsOrderStatistic(v, s, k) == Below(s, v) <= k /\ k < AtMost(s, v)

\* v is what the filter must return for the samples s, in arrival order
IsFiltered(v, s) ==
    IF Len(s) >= 3 THEN IsOrderStatistic(v, s, Len(s) \div 2)
    ELSE IF Len(s) = 2 THEN v = (s[1] + s[2]) \div 2
    ELSE v = s[1]

(***************************************************************************)
(* C4: for N >= 3 the value get_raw_touch returns for an axis is the       *)
(* element at index N \div 2 of that axis' N samples sorted ascending (the *)
(* upper-middle one for even N); for N in {1, 2} it is the floor of their  *)
(* mean.  X and Y are filtered independently.                              *)
(***************************************************************************)
C4_MedianOrMean ==
    [][(pc = "grt_127" /\ i >= self.samples) =>
          /\ Len(x_samples) = self.samples
          /\ Len(y_samples) = self.samples
          /\ raw' # <<>>
          /\ IsFiltered(raw'[1], x_samples)
          /\ IsFiltered(raw'[2], y_samples)]_vars

\* four samples per axis whose two middle elements differ
C4_Witness ==
    /\ Returned("get_raw_touch")
    /\ Len(x_samples) = 4
    /\ x_samples[2] < x_samples[3]
    /\ y_samples[2] < y_samples[3]
    /\ result = Tuple(x_samples[3], y_samples[3])

\* q is a / b (b # 0) rounded toward zero
IsTruncated(q, a, b) ==
    /\ Abs(q) * Abs(b) <= Abs(a)
    /\ Abs(a) < (Abs(q) + 1) * Abs(b)
    /\ q > 0 => (a > 0) = (b > 0)
    /\ q < 0 => (a > 0) = (b < 0)

\* q is a / b (b # 0) rounded toward minus infinity
IsFloor(q, a, b) ==
    IF b > 0 THEN q * b <= a /\ a < (q + 1) * b
    ELSE q * b >= a /\ a > (q + 1) * b

\* get_touch returned a point for rotation 0
MappedUnrotated ==
    /\ Returned("get_touch")
    /\ self.rotation = 0
    /\ result.tag = "tuple"

(***************************************************************************)
(* C5 as claimed: for rotation 0 and every raw pair, also outside the      *)
(* calibration bounds, x = width - floor((x_raw - x_min) * width /         *)
(* (x_max - x_min)) and y = floor((y_raw - y_min) * height /               *)
(* (y_max - y_min)).                                                       *)
(***************************************************************************)
C5_FloorMapping ==
    MappedUnrotated =>
        /\ IsFloor(self.width - result.x, (raw[1] - self.x_min) * self.width,
                   self.x_max - self.x_min)
        /\ IsFloor(result.y, (raw[2] - self.y_min) * self.height,
                   self.y_max - self.y_min)

(***************************************************************************)
(* C5 as amended: for rotation 0 and every raw pair, the quotients are     *)
(* rounded toward zero (which is the floor when raw >= min); the defaults  *)
(* map raw (1031, 1000) to (120, 160).                                     *)
(***************************************************************************)
C5_TruncatedMapping ==
    MappedUnrotated =>
        /\ IsTruncated(self.width - result.x,
                       (raw[1] - self.x_min) * self.width,
                       self.x_max - self.x_min)
        /\ IsTruncated(result.y, (raw[2] - self.y_min) * self.height,
                       self.y_max - self.y_min)
        /\ (/\ self.x_min = 100 /\ self.x_max = 1962
            /\ self.y_min = 100 /\ self.y_max = 1900
            /\ self.width = 240 /\ self.height = 320
            /\ raw = <<1031, 1000>>) => result = Tuple(120, 160)

\* a raw X below x_min whose quotient is no integer
C5_Witness ==
    /\ MappedUnrotated
    /\ self.x_min = 100 /\ self.x_max = 1962
    /\ raw[1] = 0
    /\ result.x = 252

(***************************************************************************)
(* C6: for rotation 0 and x_min < x_max, y_min < y_max, a raw X within     *)
(* [x_min, x_max] maps into [0, width] and a raw Y within [y_min, y_max]   *)
(* maps into [0, height].                                                  *)
(***************************************************************************)
C6_InRangeStaysOnScreen ==
    (MappedUnrotated /\ self.x_min < self.x_max /\ self.y_min < self.y_max) =>
        /\ (self.x_min <= raw[1] /\ raw[1] <= self.x_max) =>
               (0 <= result.x /\ result.x <= self.width)
        /\ (self.y_min <= raw[2] /\ raw[2] <= self.y_max) =>
               (0 <= result.y /\ result.y <= self.height)

\* both raw values on the upper calibration bound
C6_Witness ==
    /\ MappedUnrotated
    /\ raw = <<self.x_max, self.y_max>>
    /\ result = Tuple(0, self.height)

(***************************************************************************)
(* C7: get_touch returns the mapped point (x, y) as (x, y) for rotation 0, *)
(* (y, width - x) for 1, (width - x, height - y) for 2 and                 *)
(* (height - y, x) for 3; the transform of rotation 2 applied twice gives  *)
(* (x, y) back.                                                            *)
(***************************************************************************)
C7_RotationTransform ==
    (Returned("get_touch") /\ xy # <<>> /\ self.rotation \in 0..3) =>
        LET x == xy[1]
            y == xy[2]
            once == Rotate(self, 2, x, y)
        IN  /\ self.rotation = 0 => result = Tuple(x, y)
            /\ self.rotation = 1 => result = Tuple(y, self.width - x)
            /\ self.rotation = 2 =>
                   result = Tuple(self.width - x, self.height - y)
            /\ self.rotation = 3 => result = Tuple(self.height - y, x)
            /\ once = Tuple(self.width - x, self.height - y)
            /\ Rotate(self, 2, once.x, once.y) = Tuple(x, y)

C7_Witness ==
    /\ Returned("get_touch")
    /\ self.rotation = 3
    /\ xy = <<120, 160>>
    /\ result = Tuple(160, 120)

\* the instance's configuration is free of the errors construction is to
\* reject
ValidConfiguration ==
    /\ self.x_min < self.x_max
    /\ self.y_min < self.y_max
    /\ self.rotation \in 0..3

(***************************************************************************)
(* C8 as claimed: construction rejects x_min >= x_max, y_min >= y_max and  *)
(* a rotation outside 0..3, so no such instance exists, and get_touch on a *)
(* touched screen neither divides by a zero span nor returns an undefined  *)
(* result.                                                                 *)
(***************************************************************************)
C8_InvalidConfigurationRejected ==
    /\ ValidConfiguration
    /\ (Returned("get_touch") /\ touched = "True") => result.tag = "tuple"

\* the calls b on the chip-select line and the bus are whole transactions,
\* one after the other, followed by the part done of the one under way
WellFormed(b) ==
    \A k \in 1..Len(b) :
        LET step == (k - 1) % 4
        IN  /\ step = 0 => b[k] = <<"cs.value", 0>>
            /\ step = 1 =>
                   /\ b[k][1] = "spi.write"
                   /\ b[k][2] \in {_GET_X, _GET_Y, _GET_Z1, _GET_Z2}
            /\ step = 2 => b[k] = <<"spi.read", 2>>
            /\ step = 3 => b[k] = <<"cs.value", 1>>

\* no write or read is made while the line is high: the line is at the
\* level of the last call made on it, low from the first to the third call
\* of a transaction and high after the fourth
LineFollowsBus(b) ==
    b # <<>> => cs = (IF Len(b) % 4 = 0 THEN 1 ELSE 0)

(***************************************************************************)
(* C9 as claimed: every command transaction is chip-select low, one write  *)
(* of the command byte, one read of two bytes, chip-select high; no write  *)
(* or read happens while chip-select is high, transactions never nest or   *)
(* overlap, and chip-select is high whenever a public method returns.      *)
(***************************************************************************)
C9_TransactionsAndLineHigh ==
    /\ WellFormed(Bus(log))
    /\ LineFollowsBus(Bus(log))
    /\ (pc = "idle" /\ op # "none") => (Len(Bus(log)) % 4 = 0 /\ cs = 1)

(***************************************************************************)
(* C9 as amended: as claimed, but chip-select is high when a public method *)
(* returns only if that method made a transaction; one that made none      *)
(* leaves the line as it was.                                              *)
(***************************************************************************)
C9_Transactions ==
    /\ WellFormed(Bus(log))
    /\ LineFollowsBus(Bus(log))
    /\ (pc = "idle" /\ op # "none") =>
           /\ Len(Bus(log)) % 4 = 0
           /\ Bus(log) # <<>> => cs = 1

\* get_touch returned after the two pressure reads and three X/Y pairs
C9_Witness ==
    /\ Returned("get_touch")
    /\ Len(Bus(log)) = 32
    /\ SubSeq(Bus(log), 1, 4) = Txn(_GET_Z1)
    /\ SubSeq(Bus(log), 29, 32) = Txn(_GET_Y)
    /\ cs = 1

(***************************************************************************)
(* C10 as claimed: for response bytes b0, b1 in 0..255 the value _command  *)
(* returns is (b0 * 256 + b1) shifted right by 3, and lies in 0..4095.     *)
(***************************************************************************)
C10_TwelveBitValue ==
    (value # Unset /\ pc \notin {"cmd_83", "cmd_86"}) =>
        /\ data[1] \in 0..255 /\ data[2] \in 0..255
        /\ 8 * value <= data[1] * 256 + data[2]
        /\ data[1] * 256 + data[2] < 8 * (value + 1)
        /\ value \in 0..4095

====
